---- MODULE Spec2Model ----
(***************************************************************************)
(* AppInfoRetriever (src/main.py): retrieval of app-store search results   *)
(* through SerpApi.  run() walks the cross product of queries, engines,    *)
(* countries and languages; for each tuple it pages through the search     *)
(* results and hands the accumulated list to save_results().               *)
(*                                                                         *)
(* A Python dict is a record here; a key that may be missing from a dict   *)
(* is a field holding Absent (next_page_token in the request parameters)   *)
(* or is guarded by a has-flag (the fields of a response).                 *)
(***************************************************************************)
EXTENDS Integers, Sequences, FiniteSets, TLC

VARIABLES
    key_arg, env_key,                         \* argument serpapi_key of __init__, os.environ['SERP_API_KEY']
    serpapi_key,                              \* self.serpapi_key
    env_read,                                 \* history: os.environ was looked up
    queries, engines, countries, languages,  \* arguments of run()
    start_page, max_pages,                    \* arguments of run()
    output_format,                            \* self.output_format
    qi, ei, ci, li,                           \* positions of the four nested for loops
    pc,                                       \* position inside run()
    params, results, page_idx,                \* locals of run()
    now,                                      \* the wall clock read by datetime.now()
    files,                                    \* the files written under data/, in order
    error,                                    \* the exception that ended run(), if any
    reqs, resps,                              \* history: requests / responses of the current tuple
    quota                                     \* environment: size of what the API still has to return

vars == <<key_arg, env_key, serpapi_key, env_read, queries, engines, countries, languages, start_page, max_pages,
          output_format, qi, ei, ci, li, pc, params, results, page_idx,
          now, files, error, reqs, resps, quota>>

inputs == <<key_arg, env_key, queries, engines, countries, languages, start_page,
            max_pages, output_format>>

-----------------------------------------------------------------------------
(* Bounds of the model *)

MaxPagesBound == 3      \* max_pages ranges over -1 .. MaxPagesBound
MaxStartPage == 1       \* start_page ranges over 0 .. MaxStartPage
MaxWork == 5            \* size of one run: tuples * pages + size of the entries returned
MaxItems == 2           \* length of the 'items' list of one entry

(* Program constants *)

allowed_engines == <<"apple_app_store", "google_play">>
allowed_devices == <<"mobile", "desktop", "tablet">>
output_formats == <<"json", "csv">>
num == 20                       \* default of setup_params
disallow_explicit == FALSE      \* default of run
device == allowed_devices[1]    \* default of run

Absent == "absent"              \* a dict key that is not there
None == "<None>"                \* Python's None
Unset == "<unset>"              \* an environment variable that is not set
Tokens == {"T1", "T2"}          \* continuation tokens the API may hand out
Ids == {"A", "B"}               \* identities of app records

-----------------------------------------------------------------------------
(* Inputs the model draws from *)

QueryLists == {<<>>, <<"q1">>, <<"q1", "q2">>}
EngineLists == {<<"apple_app_store">>, <<"google_play">>,
                <<"apple_app_store", "google_play">>,
                <<"google_play", "apple_app_store">>}
CountryLists == {<<"de">>, <<"de", "us">>}
LanguageLists == {<<"de">>, <<"de", "en">>}
Formats == {"json", "csv", "xml"}
KeyArgs == {None, "", "KEY"}
EnvKeys == {Unset, "", "ENVKEY"}
MoreFormats == Formats \cup {"JSON", "ndjson", "tsv", ""}
RunFormats == {"json", "xml"}   \* one format that is written and one that is not

Max(a, b) == IF a >= b THEN a ELSE b

\* The size of what the API returns in a run of t tuples of p pages each: the
\* smaller, the more requests the run makes.
Quota(t, p) == IF t = 0 THEN 0 ELSE (MaxWork - t * p) \div t

NumTuples == Len(queries) * Len(engines) * Len(countries) * Len(languages)

-----------------------------------------------------------------------------
(* Data returned by the API *)

\* An app record: a dict without an 'items' key.
Leaf(id) == [hasItems |-> FALSE, id |-> id, items |-> <<>>]

\* A Google Play section: a dict whose 'items' key holds a list of app records.
Section(its) == [hasItems |-> TRUE, id |-> "section", items |-> its]

RECURSIVE SeqsUpTo(_, _)
SeqsUpTo(S, n) ==
    IF n <= 0 THEN {<<>>}
    ELSE LET shorter == SeqsUpTo(S, n - 1)
         IN  shorter \cup {Append(s, x) : s \in {t \in shorter : Len(t) = n - 1}, x \in S}

Leaves == {Leaf(id) : id \in Ids}

Entries == Leaves \cup {Section(its) : its \in SeqsUpTo(Leaves, MaxItems)}

EntrySize(e) == 1 + Len(e.items)

RECURSIVE ListSize(_)
ListSize(s) == IF s = <<>> THEN 0 ELSE EntrySize(Head(s)) + ListSize(Tail(s))

\* The lists of entries whose size is at most budget.
RECURSIVE ListsWithin(_)
ListsWithin(budget) ==
    {<<>>} \cup
    UNION {{<<e>> \o rest : rest \in ListsWithin(budget - EntrySize(e))} :
           e \in {x \in Entries : EntrySize(x) <= budget}}

\* 'serpapi_pagination' of a response: missing, or a dict without 'next', or
\* a dict with 'next' and with or without 'next_page_token'.
Paginations ==
    {p \in [present : BOOLEAN, hasNext : BOOLEAN, token : Tokens \cup {Absent}] :
        /\ ~p.present => ~p.hasNext
        /\ ~p.hasNext => p.token = Absent}

NoPagination == [present |-> FALSE, hasNext |-> FALSE, token |-> Absent]

\* requests.get(...).json() raised: the request could not be completed.
TransportFailure ==
    [ok |-> FALSE, hasOrganic |-> FALSE, organic |-> <<>>, pagination |-> NoPagination]

\* A JSON document without 'organic_results'.
NoResultsDocument ==
    [ok |-> TRUE, hasOrganic |-> FALSE, organic |-> <<>>, pagination |-> NoPagination]

Document(organic, pagination) ==
    [ok |-> TRUE, hasOrganic |-> TRUE, organic |-> organic, pagination |-> pagination]

Responses(budget) ==
    {TransportFailure, NoResultsDocument} \cup
    {Document(o, p) : o \in ListsWithin(budget), p \in Paginations}

-----------------------------------------------------------------------------
(* AppInfoRetriever.setup_params *)

\* (variant: lang is the language code once)
setup_params_LangOnce(query, engine, dev, country, language, explicit, n, start) ==
    [api_key |-> serpapi_key,
     engine |-> engine,
     device |-> dev,
     country |-> country,
     lang |-> language,
     disallow_explicit |-> explicit,
     num |-> n,
     page |-> start,
     term |-> query,
     q |-> query,
     gl |-> country,
     hl |-> language,
     next_page_token |-> Absent]

setup_params(query, engine, dev, country, language, explicit, n, start) ==
    [api_key |-> serpapi_key,
     engine |-> engine,
     device |-> dev,
     country |-> country,
     lang |-> language \o "-" \o language,
     disallow_explicit |-> explicit,
     num |-> n,
     page |-> start,
     term |-> query,
     q |-> query,
     gl |-> country,
     hl |-> language,
     next_page_token |-> Absent]

-----------------------------------------------------------------------------
(* AppInfoRetriever.save_results *)

RECURSIVE Flatten(_)
Flatten(pages) == IF pages = <<>> THEN <<>> ELSE Head(pages) \o Flatten(Tail(pages))

\* [x['items'] for x in results] raises KeyError when an entry has no 'items'.
ItemsKeyError(res, engine) ==
    engine = "google_play" /\ \E i \in 1..Len(res) : ~res[i].hasItems

\* (variant: no flattening)
Flattened_AsIs(res, engine) == res

\* The records handed to pandas.
Flattened(res, engine) ==
    IF engine = "google_play"
    THEN Flatten([i \in 1..Len(res) |-> res[i].items])
    ELSE res

\* str.lower()
UpperCase == "ABCDEFGHIJKLMNOPQRSTUVWXYZ"
LowerCase == "abcdefghijklmnopqrstuvwxyz"

ToLower ==
    [c \in {SubSeq(UpperCase, i, i) : i \in 1..Len(UpperCase)} |->
        LET i == CHOOSE j \in 1..Len(UpperCase) : SubSeq(UpperCase, j, j) = c
        IN  SubSeq(LowerCase, i, i)]

LowerChar(c) == IF c \in DOMAIN ToLower THEN ToLower[c] ELSE c

RECURSIVE Lower(_)
Lower(s) ==
    IF Len(s) = 0 THEN s
    ELSE LowerChar(SubSeq(s, 1, 1)) \o Lower(SubSeq(s, 2, Len(s)))

\* str.endswith()
EndsWith(s, suffix) ==
    Len(s) >= Len(suffix) /\ SubSeq(s, Len(s) - Len(suffix) + 1, Len(s)) = suffix

\* The last n characters of s, or s when it is shorter.
Suffix(s, n) == IF Len(s) <= n THEN s ELSE SubSeq(s, Len(s) - n + 1, Len(s))

\* Lines 76-81: the branch save_results takes for the path output_fp.
\* lower() works character by character, so the end of the lowered path is
\* the lowered end of the path; no suffix tested has more than 4 characters.
WriterFor(output_fp) ==
    LET lowered == Lower(Suffix(output_fp, 4))
    IN  IF EndsWith(lowered, "csv") THEN "to_csv"
        ELSE IF EndsWith(lowered, "json") THEN "to_json"
        ELSE "ValueError"

-----------------------------------------------------------------------------
(* AppInfoRetriever.run *)

CurrentTuple == <<qi, ei, ci, li>>

Exhausted == qi > Len(queries)

\* The loop positions of the tuple after the current one; qi runs past
\* the end of queries when there is none.
\* (variant: the country loop is left after its first pass)
NextTuple_SkipCountries ==
    IF li < Len(languages) THEN <<qi, ei, ci, li + 1>>
    ELSE IF ei < Len(engines) THEN <<qi, ei + 1, 1, 1>>
    ELSE <<qi + 1, 1, 1, 1>>

\* (variant: the language loop encloses the country loop)
NextTuple_LanguagesOuter ==
    IF ci < Len(countries) THEN <<qi, ei, ci + 1, li>>
    ELSE IF li < Len(languages) THEN <<qi, ei, 1, li + 1>>
    ELSE IF ei < Len(engines) THEN <<qi, ei + 1, 1, 1>>
    ELSE <<qi + 1, 1, 1, 1>>

NextTuple ==
    IF li < Len(languages) THEN <<qi, ei, ci, li + 1>>
    ELSE IF ci < Len(countries) THEN <<qi, ei, ci + 1, 1>>
    ELSE IF ei < Len(engines) THEN <<qi, ei + 1, 1, 1>>
    ELSE <<qi + 1, 1, 1, 1>>

\* The state before AppInfoRetriever(...) is constructed, for a run drawn from
\* the given arguments and environments.
InitWith(keyArgs, envKeys, formats, queryLists) ==
    /\ key_arg \in keyArgs
    /\ env_key \in envKeys
    /\ serpapi_key = None
    /\ env_read = FALSE
    /\ queries \in queryLists
    /\ engines \in EngineLists
    /\ countries \in CountryLists
    /\ languages \in LanguageLists
    /\ start_page \in 0..MaxStartPage
    /\ max_pages \in -1..MaxPagesBound
    /\ output_format \in formats
    /\ NumTuples * Max(max_pages, 1) <= MaxWork
    /\ quota = Quota(NumTuples, Max(max_pages, 1))
    /\ qi = 1 /\ ei = 1 /\ ci = 1 /\ li = 1
    /\ pc = "new"
    /\ params = setup_params("", "", device, "", "", disallow_explicit, num, 0)
    /\ results = <<>>
    /\ page_idx = 0
    /\ now = 0
    /\ files = <<>>
    /\ error = "none"
    /\ reqs = <<>>
    /\ resps = <<>>

\* Runs of every shape, with a key passed.
Init == InitWith({"KEY"}, {Unset}, RunFormats, QueryLists)

\* Every way of passing or not passing a key and a format, for runs of one
\* query over two engines, one country and one language, of at most one page.
InitSetup ==
    /\ InitWith(KeyArgs, EnvKeys, MoreFormats, {<<"q1">>})
    /\ Len(engines) = 2 /\ Len(countries) = 1 /\ Len(languages) = 1
    /\ max_pages <= 1

Truthy_NotNone(k) == k # None

\* bool(serpapi_key): None and '' are false.
Truthy(k) == k # None /\ k # ""

\* Lines 19-23: __init__; `serpapi_key or os.environ['SERP_API_KEY']` looks the
\* environment up only when the argument is false, and raises KeyError when
\* the variable is not set.
Construct ==
    /\ pc = "new"
    /\ IF Truthy(key_arg)
       THEN /\ serpapi_key' = key_arg
            /\ pc' = "for"
            /\ UNCHANGED <<env_read, error>>
       ELSE /\ env_read' = TRUE
            /\ IF env_key = Unset
               THEN /\ error' = "KeyError: SERP_API_KEY"
                    /\ pc' = "crashed"
                    /\ UNCHANGED serpapi_key
               ELSE /\ serpapi_key' = env_key
                    /\ pc' = "for"
                    /\ UNCHANGED error
    /\ UNCHANGED <<inputs, qi, ei, ci, li, params, results, page_idx, now, files,
                   reqs, resps, quota>>

\* Lines 107-116: the head of one iteration of the innermost for loop.
\* (variant: the list of the tuple before is kept)
FreshResults_Kept == results

\* Line 115: results = []
FreshResults == <<>>

\* (variant: the count of pages starts at the start page)
FirstPageIdx_StartPage == start_page

\* Line 116: page_idx = 0
FirstPageIdx == 0

\* (variant: the cursor of the tuple before stays in the parameters)
TupleParams_CursorKept ==
    LET fresh == setup_params(queries[qi], engines[ei], device, countries[ci],
                              languages[li], disallow_explicit, num, start_page)
    IN  IF files = <<>> THEN fresh
        ELSE [fresh EXCEPT !.page = params.page,
                           !.next_page_token = params.next_page_token]

\* Lines 108-114: the parameters of the tuple's first request, a new dict.
TupleParams ==
    setup_params(queries[qi], engines[ei], device, countries[ci],
                 languages[li], disallow_explicit, num, start_page)

SetupTuple ==
    /\ pc = "for"
    /\ ~Exhausted
    /\ params' = TupleParams
    /\ results' = FreshResults
    /\ page_idx' = FirstPageIdx
    /\ reqs' = <<>>
    /\ resps' = <<>>
    /\ pc' = "while"
    /\ UNCHANGED <<inputs, serpapi_key, env_read, qi, ei, ci, li, now, files, error, quota>>

\* (variant: the page index advances by two)
NextParams_Plus2(p, r) ==
    IF p.engine = "google_play" THEN [p EXCEPT !.next_page_token = r.pagination.token]
    ELSE IF p.engine = "apple_app_store" THEN [p EXCEPT !.page = p.page + 2]
    ELSE p

\* (variant: a token once set is kept)
NextParams_FirstToken(p, r) ==
    IF p.engine = "google_play"
    THEN IF p.next_page_token = Absent
         THEN [p EXCEPT !.next_page_token = r.pagination.token]
         ELSE p
    ELSE IF p.engine = "apple_app_store" THEN [p EXCEPT !.page = p.page + 1]
    ELSE p

\* (variant: the page index advances for either engine)
NextParams_PageAlways(p, r) ==
    IF p.engine = "google_play"
    THEN [p EXCEPT !.next_page_token = r.pagination.token, !.page = p.page + 1]
    ELSE IF p.engine = "apple_app_store" THEN [p EXCEPT !.page = p.page + 1]
    ELSE p

\* Lines 126-129: the parameters of the next request after response r.
NextParams(p, r) ==
    IF p.engine = "google_play" THEN [p EXCEPT !.next_page_token = r.pagination.token]
    ELSE IF p.engine = "apple_app_store" THEN [p EXCEPT !.page = p.page + 1]
    ELSE p

\* Line 127: new_page_results['serpapi_pagination']['next_page_token'] raises
\* KeyError when the key is missing.
TokenKeyError(p, r) ==
    p.engine = "google_play" /\ r.pagination.token = Absent

\* (variant: the test is for 'serpapi_pagination', not for its 'next')
HasNext_AnyPagination(r) == r.pagination.present

\* Line 125: 'next' in new_page_results.get('serpapi_pagination', {})
HasNext(r) == r.pagination.present /\ r.pagination.hasNext

\* (variants: one of the two exceptions is swallowed)
RequestRaises_NotTransport(r) == r.ok /\ ~r.hasOrganic

RequestRaises_NotSchema(r) == ~r.ok

\* Lines 122-123: requests.get(...).json() raises, or the document has no
\* 'organic_results' and the subscript raises KeyError.
RequestRaises(r) == ~r.ok \/ ~r.hasOrganic

\* (variant: the new page goes in front)
Extend_Prepend(res, organic) == organic \o res

\* Line 123: results.extend(new_page_results['organic_results'])
Extend(res, organic) == res \o organic

\* (variant: <= for <)
MorePages_OffByOne == page_idx <= max_pages

\* (variant: the loop goes on until the count equals max_pages)
MorePages_UntilEqual == page_idx # max_pages

\* Line 119: the loop condition.
MorePages == page_idx < max_pages

\* Lines 119-131: one iteration of the while loop, with the response r.
FetchPage(r) ==
    /\ page_idx' = page_idx + 1
    /\ reqs' = Append(reqs, params)
    /\ resps' = Append(resps, r)
    /\ now' = now + 1
    /\ quota' = quota - ListSize(r.organic)
    /\ IF RequestRaises(r)
       THEN /\ error' = IF r.ok THEN "KeyError: organic_results" ELSE "TransportError"
            /\ pc' = "crashed"
            /\ UNCHANGED <<params, results>>
       ELSE /\ results' = Extend(results, r.organic)
            /\ IF HasNext(r)
               THEN IF TokenKeyError(params, r)
                    THEN /\ error' = "KeyError: next_page_token"
                         /\ pc' = "crashed"
                         /\ UNCHANGED params
                    ELSE /\ params' = NextParams(params, r)
                         /\ pc' = "while"
                         /\ UNCHANGED error
               ELSE /\ pc' = "save"
                    /\ UNCHANGED <<params, error>>
    /\ UNCHANGED <<inputs, serpapi_key, env_read, qi, ei, ci, li, files>>

Fetch ==
    /\ pc = "while"
    /\ MorePages
    /\ \E r \in Responses(quota) : FetchPage(r)

\* Line 119: the loop condition fails.
LoopExit ==
    /\ pc = "while"
    /\ ~MorePages
    /\ pc' = "save"
    /\ UNCHANGED <<inputs, serpapi_key, env_read, qi, ei, ci, li, params, results,
                   page_idx, now, files, error, reqs, resps, quota>>

\* Line 135: os.path.join('data', f'{e}.{q}.{datetime.now()}.{self.output_format}')
OutputPath(e, q, t, fmt) ==
    "data/" \o e \o "." \o q \o "." \o ToString(t) \o "." \o fmt

\* Lines 133-136 and save_results: the file of the current tuple.
Save ==
    /\ pc = "save"
    /\ now' = now + 1
    /\ LET output_fp == OutputPath(engines[ei], queries[qi], now, output_format)
           writer == WriterFor(output_fp)
       IN  IF ItemsKeyError(results, engines[ei])
           THEN /\ error' = "KeyError: items"
                /\ pc' = "crashed"
                /\ UNCHANGED <<files, qi, ei, ci, li>>
           ELSE IF writer = "ValueError"
           THEN /\ error' = "ValueError: format"
                /\ pc' = "crashed"
                /\ UNCHANGED <<files, qi, ei, ci, li>>
           ELSE /\ files' = Append(files,
                       [path |-> output_fp,
                        writer |-> writer,
                        content |-> Flattened(results, engines[ei]),
                        tuple |-> CurrentTuple,
                        requests |-> Len(reqs),
                        parsed |-> Cardinality({k \in 1..Len(resps) :
                                                   resps[k].ok /\ resps[k].hasOrganic})])
                /\ qi' = NextTuple[1] /\ ei' = NextTuple[2]
                /\ ci' = NextTuple[3] /\ li' = NextTuple[4]
                /\ pc' = "for"
                /\ UNCHANGED error
    /\ UNCHANGED <<inputs, serpapi_key, env_read, params, results, page_idx, reqs,
                   resps, quota>>

\* Line 137: the loops are over.
Finish ==
    /\ pc = "for"
    /\ Exhausted
    /\ pc' = "done"
    /\ UNCHANGED <<inputs, serpapi_key, env_read, qi, ei, ci, li, params, results,
                   page_idx, now, files, error, reqs, resps, quota>>

Next == Construct \/ SetupTuple \/ Fetch \/ LoopExit \/ Save \/ Finish

Spec == Init /\ [][Next]_vars

SpecSetup == InitSetup /\ [][Next]_vars

-----------------------------------------------------------------------------
(* Properties *)

\* What a response says, read off the response itself.
SaysNext(r) == r.pagination.hasNext
Parsed(r) == r.ok /\ r.hasOrganic

\* Whether the requests logged in reqs were made for engine e.
RequestsFor(e) == reqs # <<>> /\ reqs[1].engine = e

\* C1 as stated: the number of requests issued for the tuple being processed
\* never exceeds max_pages.
C1_AtMostMaxPages ==
    pc \in {"while", "save"} => Len(reqs) <= max_pages

\* C1, amended: the number of requests issued for a tuple never exceeds
\* max_pages when max_pages >= 0, and is zero when max_pages is negative;
\* the same holds of every tuple whose file has been written.
C1_AtMostMaxPagesOrNone ==
    /\ Len(reqs) <= Max(max_pages, 0)
    /\ \A i \in 1..Len(files) : files[i].requests <= Max(max_pages, 0)

\* The cap ends the pagination of a tuple whose last response announces more.
C1_Witness ==
    /\ max_pages >= 2
    /\ Len(reqs) = max_pages
    /\ Parsed(resps[Len(resps)]) /\ SaysNext(resps[Len(resps)])
    /\ pc = "save"

\* C2: a response without 'next' in its pagination metadata (or without
\* pagination metadata) is the last response of its tuple: no request follows
\* it, whatever max_pages allows, and its items are the tail of the results.
C2_NoNextEndsTuple ==
    /\ \A k \in 1..Len(resps) : ~SaysNext(resps[k]) => k = Len(reqs)
    /\ \A k \in 1..Len(resps) : ~SaysNext(resps[k]) => pc # "while"
    /\ \A k \in 1..Len(resps) :
          (Parsed(resps[k]) /\ ~SaysNext(resps[k])) =>
              /\ Len(results) >= Len(resps[k].organic)
              /\ SubSeq(results, Len(results) - Len(resps[k].organic) + 1, Len(results))
                    = resps[k].organic

\* The first page has items and no 'next', and max_pages allows more pages.
C2_Witness ==
    /\ Len(resps) = 1
    /\ Len(reqs) < max_pages
    /\ Parsed(resps[1]) /\ ~SaysNext(resps[1])
    /\ resps[1].organic # <<>>
    /\ results = resps[1].organic
    /\ pc = "save"

\* C3: for apple_app_store the k-th request of a tuple carries
\* page = start_page + (k - 1), each request one more than the one before, and
\* after a response with 'next' the parameters of the next request are ready.
C3_ApplePageIncrements ==
    RequestsFor("apple_app_store") =>
        /\ \A k \in 1..Len(reqs) : reqs[k].page = start_page + (k - 1)
        /\ \A k \in 1..(Len(reqs) - 1) : reqs[k + 1].page = reqs[k].page + 1
        /\ pc = "while" => params.page = start_page + Len(reqs)

\* First page index 1 gives page 2 on the second request.
C3_Witness ==
    /\ RequestsFor("apple_app_store")
    /\ start_page = 1
    /\ Len(reqs) >= 2
    /\ reqs[1].page = 1 /\ reqs[2].page = 2
    /\ SaysNext(resps[1])

\* C4: for google_play every request after the first carries as
\* next_page_token the token of the response just before it.
C4_GoogleTokenFromPreviousResponse ==
    RequestsFor("google_play") =>
        /\ \A k \in 1..(Len(reqs) - 1) :
              /\ SaysNext(resps[k])
              /\ resps[k].pagination.token \in Tokens
              /\ reqs[k + 1].next_page_token = resps[k].pagination.token
        /\ (pc = "while" /\ resps # <<>>) =>
              params.next_page_token = resps[Len(resps)].pagination.token

\* The third request carries the second response's token, not the first's.
C4_Witness ==
    /\ RequestsFor("google_play")
    /\ Len(reqs) = 3
    /\ resps[1].pagination.token = "T1"
    /\ resps[2].pagination.token = "T2"
    /\ reqs[2].next_page_token = "T1"
    /\ reqs[3].next_page_token = "T2"

\* Lexicographic order of loop positions: the order in which run() visits them.
Before(a, b) ==
    \E n \in 1..4 : a[n] < b[n] /\ \A m \in 1..(n - 1) : a[m] = b[m]

FilesOf(q, e) == {i \in 1..Len(files) : files[i].tuple[1] = q /\ files[i].tuple[2] = e}

\* C5 as stated: a google_play response without a continuation token ends the
\* pagination of its tuple normally, that is, the loop is left without an
\* exception and the results go to save_results.
C5_NoTokenEndsNormally ==
    \A k \in 1..Len(resps) :
        (RequestsFor("google_play") /\ Parsed(resps[k])
            /\ resps[k].pagination.token = Absent)
        => /\ k = Len(reqs)
           /\ pc # "while"
           /\ error # "KeyError: next_page_token"

\* C6 as stated: after a run without error there is exactly one file per
\* (query, engine).
C6_OneFilePerQueryEngine ==
    pc = "done" =>
        \A q \in 1..Len(queries), e \in 1..Len(engines) : Cardinality(FilesOf(q, e)) = 1

\* C6, amended: after a run without error exactly one file has been written
\* per (query, engine, country, language), so that each (query, engine) has
\* as many files as there are pairs of a country and a language.
C6_OneFilePerTuple ==
    pc = "done" =>
        /\ \A q \in 1..Len(queries), e \in 1..Len(engines),
              c \in 1..Len(countries), l \in 1..Len(languages) :
              Cardinality({i \in 1..Len(files) : files[i].tuple = <<q, e, c, l>>}) = 1
        /\ \A q \in 1..Len(queries), e \in 1..Len(engines) :
              Cardinality(FilesOf(q, e)) = Len(countries) * Len(languages)
        /\ Len(files) = NumTuples

\* A finished run over two countries and two languages.
C6_Witness ==
    /\ pc = "done"
    /\ Len(countries) = 2 /\ Len(languages) = 2
    /\ Cardinality(FilesOf(1, 1)) = 4

\* The concatenation of the first n pages, built from the last page backwards.
RECURSIVE PagesUpTo(_)
PagesUpTo(n) == IF n = 0 THEN <<>> ELSE PagesUpTo(n - 1) \o resps[n].organic

\* C7: the results of a tuple are the 'organic_results' of its responses, in
\* the order of the pages and, within a page, of the items; nothing is
\* dropped, repeated, merged or moved.
C7_ResultsAreThePagesInOrder ==
    /\ results = PagesUpTo(Len(resps))

\* Two pages, the first of two different items.
C7_Witness ==
    /\ Len(resps) = 2
    /\ Len(resps[1].organic) = 2
    /\ resps[1].organic[1] # resps[1].organic[2]
    /\ Len(resps[2].organic) = 1
    /\ results = <<resps[1].organic[1], resps[1].organic[2], resps[2].organic[1]>>
    /\ pc = "save"

\* The 'items' of the first n entries of results, one after the other.
RECURSIVE ItemsUpTo(_)
ItemsUpTo(n) == IF n = 0 THEN <<>> ELSE ItemsUpTo(n - 1) \o results[n].items

LastFile == files[Len(files)]
LastEngine == engines[LastFile.tuple[2]]

\* C8: what save_results writes for google_play is the 'items' lists of the
\* accumulated entries one after the other, without the entries themselves;
\* for apple_app_store it is the accumulated entries as they are.
C8_GoogleFlattenedAppleAsIs ==
    (pc \in {"for", "done"} /\ files # <<>>) =>
        /\ LastEngine = "google_play" =>
              /\ LastFile.content = ItemsUpTo(Len(results))
              /\ \A i \in 1..Len(LastFile.content) : LastFile.content[i] \in Leaves
        /\ LastEngine = "apple_app_store" =>
              LastFile.content = results

\* Two sections of google_play, flattened to their two items.
C8_Witness ==
    /\ pc = "for" /\ files # <<>>
    /\ LastEngine = "google_play"
    /\ Len(results) = 2
    /\ Len(results[1].items) = 1 /\ Len(results[2].items) = 1
    /\ results[1].items # results[2].items
    /\ LastFile.content = <<results[1].items[1], results[2].items[1]>>

\* C9: when a request fails or its response has no 'organic_results', run()
\* ends there: the request is the last one made, nothing can follow, and no
\* file exists for the tuple or for a later one.
C9_FailureEndsRun ==
    \A k \in 1..Len(resps) :
        ~Parsed(resps[k]) =>
            /\ k = Len(reqs)
            /\ pc = "crashed"
            /\ error = IF resps[k].ok THEN "KeyError: organic_results" ELSE "TransportError"
            /\ ~ENABLED Next
            /\ \A i \in 1..Len(files) : Before(files[i].tuple, CurrentTuple)

\* The second request of the second tuple fails.
C9_Witness ==
    /\ pc = "crashed"
    /\ error = "TransportError"
    /\ Len(reqs) = 2
    /\ Len(files) = 1

\* C10: a file exists for a tuple only when all its requests were answered
\* and parsed and the tuple is over; files once written stay as they are,
\* also when run() ends with an exception in a later tuple.
C10_FilesOnlyOfCompletedTuples ==
    /\ [](\A i \in 1..Len(files) :
            /\ files[i].parsed = files[i].requests
            /\ Before(files[i].tuple, CurrentTuple))
    /\ [](pc \in {"while", "save", "crashed"} =>
            \A i \in 1..Len(files) : files[i].tuple # CurrentTuple)
    /\ [][Len(files') >= Len(files) /\ SubSeq(files', 1, Len(files)) = files]_vars

\* run() ended with an exception in the second tuple; the first one's file
\* is there.
C10_Witness ==
    /\ pc = "crashed"
    /\ error = "KeyError: organic_results"
    /\ CurrentTuple # <<1, 1, 1, 1>>
    /\ Len(files) = 1 /\ files[1].tuple = <<1, 1, 1, 1>>
    /\ files[1].requests = 1

\* The text after the last '.' of a path, the whole path when it has none.
RECURSIVE Extension(_)
Extension(path) ==
    LET dots == {i \in 1..Len(path) : SubSeq(path, i, i) = "."}
    IN  IF dots = {} THEN path
        ELSE Extension(SubSeq(path, (CHOOSE i \in dots : TRUE) + 1, Len(path)))

\* C11: a path whose extension is neither 'csv' nor 'json' is never written:
\* every file there is has one of the two extensions, and a save under any
\* other extension ends the run with the ValueError and adds no file.
C11_UnsupportedExtensionRaises ==
    /\ \A i \in 1..Len(files) : Lower(Extension(files[i].path)) \in {"csv", "json"}
    /\ (pc \in {"for", "done"} /\ files # <<>>) =>
            Lower(output_format) \in {"csv", "json"}

\* C12: with no key passed (None or '') and SERP_API_KEY not set, __init__
\* raises and no request is ever sent; with a non-empty key passed, the
\* environment is not looked up and the key passed is the one kept, whether
\* SERP_API_KEY is set or not.
C12_KeyOrEnvironment ==
    /\ (key_arg \in {None, ""} /\ env_key = Unset /\ pc # "new") =>
            /\ pc = "crashed" /\ error = "KeyError: SERP_API_KEY"
            /\ reqs = <<>> /\ files = <<>> /\ now = 0
            /\ ~ENABLED Next
    /\ (key_arg \notin {None, ""} /\ pc # "new") =>
            /\ serpapi_key = key_arg
            /\ ~env_read
            /\ error # "KeyError: SERP_API_KEY"
            /\ \A k \in 1..Len(reqs) : reqs[k].api_key = key_arg

\* The empty key was passed, SERP_API_KEY is not set, and __init__ has raised.
C12_Witness ==
    /\ key_arg = "" /\ env_key = Unset
    /\ pc = "crashed" /\ error = "KeyError: SERP_API_KEY"
    /\ env_read

\* Whether field f of a request is there.
Has(req, f) == f \in DOMAIN req /\ (f = "next_page_token" => req[f] # Absent)

\* C13: every request sent has api_key, engine and device, of the key kept,
\* the tuple's engine and the device of the run; for apple_app_store also
\* country, lang as '<language>-<language>', disallow_explicit, num, page and
\* the query as term; for google_play also the query as q, the country as gl
\* and the language as hl.
C13_RequiredFields ==
    pc \in {"while", "save", "crashed"} => \A k \in 1..Len(reqs) :
        LET req == reqs[k]
            language == languages[li]
        IN  /\ \A f \in {"api_key", "engine", "device"} : Has(req, f)
            /\ req.api_key = serpapi_key
            /\ req.engine = engines[ei]
            /\ req.device \in {allowed_devices[i] : i \in 1..Len(allowed_devices)}
            /\ req.engine = "apple_app_store" =>
                  /\ \A f \in {"country", "lang", "disallow_explicit", "num", "page",
                              "term"} : Has(req, f)
                  /\ req.country = countries[ci]
                  /\ Len(req.lang) = 2 * Len(language) + 1
                  /\ SubSeq(req.lang, 1, Len(language)) = language
                  /\ SubSeq(req.lang, Len(language) + 1, Len(language) + 1) = "-"
                  /\ SubSeq(req.lang, Len(language) + 2, Len(req.lang)) = language
                  /\ req.disallow_explicit \in BOOLEAN
                  /\ req.num \in Nat
                  /\ req.page \in Int
                  /\ req.term = queries[qi]
            /\ req.engine = "google_play" =>
                  /\ \A f \in {"q", "gl", "hl"} : Has(req, f)
                  /\ req.q = queries[qi]
                  /\ req.gl = countries[ci]
                  /\ req.hl = language

\* Requests of both engines were sent, the later one for the second country.
C13_Witness ==
    /\ Len(files) >= 1 /\ files[1].requests = 1 /\ engines[1] = "google_play"
    /\ CurrentTuple = <<1, 2, 2, 1>>
    /\ engines[ei] = "apple_app_store"
    /\ Len(reqs) = 1
    /\ reqs[1].lang = "de-de" /\ reqs[1].country = "us" /\ reqs[1].term = "q1"

\* The 'items' of the entries es, one after the other.
RECURSIVE EntryItems(_)
EntryItems(es) == IF es = <<>> THEN <<>> ELSE Head(es).items \o EntryItems(Tail(es))

\* C14: the list of results is empty when a tuple starts, and the file of a
\* tuple holds what the responses to that tuple's requests brought, all of it
\* and nothing of a tuple before: the entries of the pages for
\* apple_app_store, the items of those entries for google_play.
C14_FileIsOfOneTuple ==
    /\ (pc = "while" /\ reqs = <<>>) => results = <<>>
    /\ (pc \in {"for", "done"} /\ files # <<>>) =>
          /\ LastFile.requests = Len(resps)
          /\ LastFile.content =
                IF LastEngine = "google_play"
                THEN EntryItems(PagesUpTo(Len(resps)))
                ELSE PagesUpTo(Len(resps))

\* The first tuple's file has an item; the second tuple's only page was empty
\* and so is its file.
C14_Witness ==
    /\ Len(files) = 2
    /\ Len(files[1].content) = 1
    /\ files[2].requests = 1
    /\ resps[1].organic = <<>>
    /\ files[2].content = <<>>

\* The place of loop position t in the order queries, engines, countries,
\* languages, the languages changing fastest; the first place is 1.
Rank(t) ==
    (((t[1] - 1) * Len(engines) + (t[2] - 1)) * Len(countries) + (t[3] - 1))
        * Len(languages) + t[4]

\* C15: the tuples are taken in the order of the nested loops over queries,
\* engines, countries and languages, languages innermost; the requests of a
\* tuple are sent one after the other, each after the answer to the one
\* before, all for that tuple; and when a tuple's requests are sent, the file
\* of every tuple before it is written and no other.
C15_NestedOrderOneTupleAtATime ==
    /\ \A i \in 1..Len(files) : Rank(files[i].tuple) = i
    /\ ~Exhausted => Rank(CurrentTuple) = Len(files) + 1
    /\ pc = "done" => Len(files) = NumTuples
    /\ Len(reqs) = Len(resps)
    /\ pc \in {"while", "save", "crashed"} =>
          \A k \in 1..Len(reqs) :
              /\ reqs[k].term = queries[qi]
              /\ reqs[k].engine = engines[ei]
              /\ reqs[k].country = countries[ci]
              /\ reqs[k].hl = languages[li]

\* Two countries and two languages: the second file is of the first country
\* and the second language, the third of the second country and the first
\* language, each after one request.
C15_Witness ==
    /\ pc = "done"
    /\ Len(countries) = 2 /\ Len(languages) = 2
    /\ Len(files) = 4
    /\ files[2].tuple = <<1, 1, 1, 2>>
    /\ files[3].tuple = <<1, 1, 2, 1>>
    /\ \A i \in 1..4 : files[i].requests = 1

\* Every response the tuple got was parsed and says there is a next page,
\* with the token when the engine is google_play.
AllSayNext ==
    /\ resps # <<>>
    /\ \A k \in 1..Len(resps) :
          /\ Parsed(resps[k])
          /\ SaysNext(resps[k])
          /\ reqs[k].engine = "google_play" => resps[k].pagination.token # Absent

\* C16: when every response of a tuple says there is a next page, the loop
\* is left after max_pages requests exactly, whatever start_page is, and the
\* last request for apple_app_store has page = start_page + max_pages - 1.
C16_ExactlyMaxPagesFromAnyStart ==
    AllSayNext =>
        /\ Len(reqs) <= max_pages
        /\ pc # "while" =>
              /\ Len(reqs) = max_pages
              /\ RequestsFor("apple_app_store") =>
                    reqs[Len(reqs)].page = start_page + max_pages - 1

\* Three pages from start page 1 on: the third request is for page 3.
C16_Witness ==
    /\ pc = "save"
    /\ AllSayNext
    /\ RequestsFor("apple_app_store")
    /\ start_page = 1 /\ max_pages = 3
    /\ Len(reqs) = 3 /\ reqs[3].page = 3

\* The requests of the tuple so far and, inside the loop, the parameters the
\* next one would be sent with.
RequestsAndNext == IF pc = "while" THEN Append(reqs, params) ELSE reqs

\* C17: two successive requests of a tuple differ at most in 'page' and
\* 'next_page_token'; for apple_app_store 'page' goes up and there is never
\* a 'next_page_token'; for google_play 'page' stays start_page and the
\* token is the only field that changes.
C17_OnlyTheCursorChanges ==
    LET rs == RequestsAndNext
    IN  /\ \A k \in 1..(Len(rs) - 1) :
              /\ [rs[k + 1] EXCEPT !.page = rs[k].page,
                                   !.next_page_token = rs[k].next_page_token] = rs[k]
              /\ rs[k].engine = "apple_app_store" => rs[k + 1].page # rs[k].page
              /\ rs[k].engine = "google_play" =>
                    rs[k + 1].next_page_token # Absent
        /\ \A k \in 1..Len(rs) :
              /\ rs[k].engine = "apple_app_store" =>
                    ~Has(rs[k], "next_page_token")
              /\ rs[k].engine = "google_play" => rs[k].page = start_page

\* Three google_play requests from start page 1: the tokens differ, the page
\* is 1 in all three.
C17_Witness ==
    /\ RequestsFor("google_play")
    /\ start_page = 1
    /\ Len(reqs) = 3
    /\ reqs[1].next_page_token = Absent
    /\ reqs[2].next_page_token = "T2"
    /\ reqs[3].next_page_token = "T1"
    /\ \A k \in 1..3 : reqs[k].page = 1

\* C18: the first request of every tuple, and the parameters made for it,
\* have page = start_page and no 'next_page_token', whatever the tuples
\* before were answered.
C18_FirstRequestIsFresh ==
    LET rs == RequestsAndNext
    IN  rs # <<>> => (rs[1].page = start_page /\ ~Has(rs[1], "next_page_token"))

\* The first tuple made two requests, so its cursor moved; the first request
\* of the second tuple is for the start page again, without a token.
C18_Witness ==
    /\ Len(files) = 1 /\ files[1].requests = 2
    /\ pc \in {"while", "save"}
    /\ Len(reqs) >= 1
    /\ start_page = 1
    /\ reqs[1].page = 1 /\ reqs[1].next_page_token = Absent

\* C19: with max_pages zero or negative no request is sent for any tuple;
\* save_results is still called for every tuple, with the empty list, and
\* writes one file for each. (The run ends before that only with the
\* ValueError of a format save_results does not write.)
C19_NoPagesStillOneFilePerTuple ==
    max_pages <= 0 =>
        /\ reqs = <<>> /\ resps = <<>>
        /\ now = Len(files) + (IF pc = "crashed" THEN 1 ELSE 0)
        /\ pc = "save" => results = <<>>
        /\ \A i \in 1..Len(files) :
              /\ files[i].requests = 0
              /\ files[i].content = <<>>
              /\ Rank(files[i].tuple) = i
        /\ pc = "done" => Len(files) = NumTuples
        /\ pc = "crashed" => error = "ValueError: format"

\* max_pages = -1 and four tuples: the run is over with four empty files.
C19_Witness ==
    /\ max_pages = -1
    /\ NumTuples = 4
    /\ pc = "done"
    /\ Len(files) = 4
    /\ \A i \in 1..4 : files[i].content = <<>> /\ files[i].requests = 0

====
